---- MODULE Spec2Model ----
(***************************************************************************)
(* gltfio MorphHelper (libs/gltfio/src/MorphHelper.{h,cpp}): selection of  *)
(* the primary morph targets, the (entity, primary indices) cache of       *)
(* VertexBuffer objects, and the synthesis of one VertexBuffer.            *)
(*                                                                         *)
(* Weights are modelled as integers (exact values; only their order and    *)
(* equality are used by the code).  Indices stored in a ubyte4 are the     *)
(* 0-based indices of the source; TLA+ sequences are 1-based, so index i   *)
(* of the source is position i + 1 of a sequence.                          *)
(***************************************************************************)
EXTENDS Integers, Sequences, FiniteSets, TLC

VARIABLES
    asset,                    \* mAsset: entity -> primitives of its mesh (immutable)
    status,                   \* "live", "destroyed" (after ~MorphHelper) or "fatal"
    mMorphTable,              \* MorphKey -> MorphValue
    mPartiallySortedWeights,  \* scratch copy of the weights
    geometry,                 \* RenderableManager: entity -> geometry per primitive
    morphWeights,             \* RenderableManager: entity -> float4 uniform
    vbuffers,                 \* Engine: the VertexBuffers built; handle h is vbuffers[h]
    destroyed,                \* Engine: handle -> number of destroy() calls
    builds,                   \* createVertexBuffer calls of the last applyWeights
    call,                     \* arguments and locals of the last applyWeights
    nCalls,                   \* number of applyWeights calls so far
    seen                      \* first count > 4 call of each (entity, weights)

vars == <<asset, status, mMorphTable, mPartiallySortedWeights, geometry,
          morphWeights, vbuffers, destroyed, builds, call, nCalls, seen>>

---------------------------------------------------------------------------
(* Program constants *)

kUnused == 255
kMaxWeights == 255
kMaxPrimary == 4
kMaxBufferCount == 16
kMorphTargetUnused == -1
UvMapSize == 8

(* Bounds of the model *)

MaxCalls == 3
MaxCount == 5
MaxWeight == 2

Min(a, b) == IF a < b THEN a ELSE b

---------------------------------------------------------------------------
(* Weight selection: applyWeights, lines 68-92 *)

RECURSIVE SortDesc(_)
SortDesc(s) ==
    IF Len(s) = 0 THEN <<>>
    ELSE LET m == CHOOSE i \in 1..Len(s) : \A j \in 1..Len(s) : s[i] >= s[j]
         IN <<s[m]>> \o SortDesc(SubSeq(s, 1, m - 1) \o SubSeq(s, m + 1, Len(s)))

\* std::nth_element(first, first + nth, last, a > b): every outcome the library
\* may produce.  The element at position nth is the one a full descending sort
\* puts there, no element before it is smaller than one after it, and the order
\* inside the two parts is unspecified.  Requires nth < Len(s).
NthElement(s, nth) ==
    LET d == SortDesc(s)
        n == Len(s)
    IN { [i \in 1..n |-> IF i <= nth THEN d[ph[i]]
                         ELSE IF i = nth + 1 THEN d[i]
                         ELSE d[pt[i]]] :
            ph \in Permutations(1..nth), pt \in Permutations((nth + 2)..n) }

\* while (sorted.size() < 4) sorted.push_back(-1);
PadSorted(sorted) ==
    IF Len(sorted) < kMaxPrimary
    THEN sorted \o [i \in 1..(kMaxPrimary - Len(sorted)) |-> -1]
    ELSE sorted

\* Line 89 with w >= 0 in place of w > 0.
QualifiesLoose(w, sorted) ==
    w >= 0 /\ (w = sorted[1] \/ w = sorted[2] \/ w = sorted[3] \/ w = sorted[4])

\* The test of line 89.
Qualifies(w, sorted) ==
    w > 0 /\ (w = sorted[1] \/ w = sorted[2] \/ w = sorted[3] \/ w = sorted[4])

\* Line 90 filling the tuple from the other end.
StorePrimaryFront(acc, index) == <<index % 256>> \o acc

\* primaryIndices[primary++] = index, on the indices collected so far.
StorePrimary(acc, index) == Append(acc, index % 256)

\* The scan of lines 87-92; acc holds primaryIndices[0 .. primary-1].
RECURSIVE Scan(_, _, _, _, _)
Scan(weights, sorted, count, index, acc) ==
    IF index < count /\ Len(acc) < Min(kMaxPrimary, count)
    THEN IF Qualifies(weights[index + 1], sorted)
         THEN Scan(weights, sorted, count, index + 1, StorePrimary(acc, index))
         ELSE Scan(weights, sorted, count, index + 1, acc)
    ELSE acc

\* ubyte4 primaryIndices after the scan, starting from all kUnused.
PrimaryIndices(weights, sorted, count) ==
    LET acc == Scan(weights, sorted, count, 0, <<>>)
    IN [i \in 1..4 |-> IF i <= Len(acc) THEN acc[i] ELSE kUnused]

\* Lines 113-115, with the values of the scratch array in place of the
\* weights at the primary indices.
HighestFromSorted(weights, primaryIndices, sorted) ==
    [i \in 1..4 |-> sorted[i]]

\* Lines 113-115: the "safe set" and the float4 gathered through it.
Highest(weights, primaryIndices, sorted) ==
    LET safe == [i \in 1..4 |->
                    IF primaryIndices[i] = kUnused THEN 0 ELSE primaryIndices[i]]
    IN [i \in 1..4 |-> weights[safe[i] + 1]]

\* Lines 62-63 with the loop one iteration short.
SmallWeightsShort(weights, count) ==
    [i \in 1..4 |-> IF i < count THEN weights[i] ELSE 0]

\* Lines 62-63: the float4 of the count <= 4 path.
SmallWeights(weights, count) ==
    [i \in 1..4 |-> IF i <= count THEN weights[i] ELSE 0]

---------------------------------------------------------------------------
(* createVertexBuffer, lines 146-330 *)

\* A primitive is [type, material, attributes, targetAttrs, uvmap, indices]:
\*   attributes   the cgltf attributes, each [type, index], in file order;
\*   targetAttrs  the attribute types of each morph target (glTF gives every
\*                target of a primitive the same attributes);
\*   uvmap        gltfioPrim.uvmap, entry i + 1 for TEXCOORD_i;
\*   indices      gltfioPrim.indices, the shared IndexBuffer.
\* The builder calls and the writes to the local buffers array are recorded
\* as a sequence of events, in program order.

Attribute(attr, ord, slot) ==
    [ev |-> "attribute", attr |-> attr, ord |-> ord, slot |-> slot,
     payload |-> "none", target |-> kMorphTargetUnused]

Buffer(slot, payload, target) ==
    [ev |-> "buffer", attr |-> "none", ord |-> 0, slot |-> slot,
     payload |-> payload, target |-> target]

\* getVertexAttrType (GltfEnums.h).
GetVertexAttrType(atype) ==
    CASE atype = "position" -> "POSITION"
      [] atype = "texcoord" -> "UV0"
      [] atype = "color"    -> "COLOR"
      [] atype = "joints"   -> "BONE_INDICES"
      [] atype = "weights"  -> "BONE_WEIGHTS"
      [] OTHER              -> "POSITION"

\* getPrimitiveType (GltfEnums.h).
GetPrimitiveType(ptype) ==
    CASE ptype = "cgltf_primitive_type_points" -> "POINTS"
      [] ptype = "cgltf_primitive_type_lines"  -> "LINES"
      [] OTHER                                 -> "TRIANGLES"

\* getNumUvSets: the number of UV sets the map uses.
GetNumUvSets(uvmap) ==
    IF \E i \in 1..Len(uvmap) : uvmap[i] = "UV1" THEN 2
    ELSE IF \E i \in 1..Len(uvmap) : uvmap[i] = "UV0" THEN 1
    ELSE 0

\* vbb.attribute(semantic, slot, ...); buffers[slot++] = <payload>;
Bind(st, semantic, ord, payload, target) ==
    [st EXCEPT !.events = @ \o <<Attribute(semantic, ord, st.slot),
                                 Buffer(st.slot, payload, target)>>,
               !.slot = @ + 1]

\* One iteration of the loop over prim.attributes, lines 202-250.
BaseAttribute(st, attribute, uvmap) ==
    LET atype == attribute.type
        index == attribute.index
    IN
    IF atype = "tangent" THEN st
    ELSE IF atype = "normal"
    THEN [Bind(st, "TANGENTS", 0, "tangents", kMorphTargetUnused)
            EXCEPT !.hasNormals = TRUE]
    ELSE
    LET st1 == IF atype = "color" THEN [st EXCEPT !.hasVertexColor = TRUE] ELSE st
    IN
    IF atype = "texcoord"
    THEN IF index >= UvMapSize THEN st1
         ELSE CASE uvmap[index + 1] = "UV0" ->
                     Bind([st1 EXCEPT !.hasUv0 = TRUE], "UV0", 0, "copy",
                          kMorphTargetUnused)
                [] uvmap[index + 1] = "UV1" ->
                     Bind([st1 EXCEPT !.hasUv1 = TRUE], "UV1", 0, "copy",
                          kMorphTargetUnused)
                [] OTHER ->
                     IF ~st1.hasUv0 /\ GetNumUvSets(uvmap) = 0
                     THEN Bind([st1 EXCEPT !.hasUv0 = TRUE], "UV0", 0, "copy",
                               kMorphTargetUnused)
                     ELSE st1
    ELSE Bind(st1, GetVertexAttrType(atype), 0, "copy", kMorphTargetUnused)

RECURSIVE BaseAttributes(_, _, _, _)
BaseAttributes(st, attributes, uvmap, aindex) ==
    IF aindex > Len(attributes) THEN st
    ELSE BaseAttributes(BaseAttribute(st, attributes[aindex], uvmap),
                        attributes, uvmap, aindex + 1)

\* Lines 252-258: flat normals for a lit model without normals.
FlatNormals(st, prim) ==
    IF prim.material = "lit" /\ ~st.hasNormals
    THEN Bind(st, "TANGENTS", 0, "tangents", kMorphTargetUnused)
    ELSE st

\* One iteration of the loop over morphTarget.attributes, lines 270-290.
TargetAttribute(st, atype, targetCount, targetIndex) ==
    IF atype = "tangent" THEN st
    ELSE IF atype = "normal"
    THEN Bind(st, "MORPH_TANGENTS", targetCount, "tangents", targetIndex)
    ELSE Bind(st, "MORPH_POSITION", targetCount, "copy", targetIndex)

RECURSIVE TargetAttributes(_, _, _, _, _)
TargetAttributes(st, attrs, targetCount, targetIndex, aindex) ==
    IF aindex > Len(attrs) THEN st
    ELSE TargetAttributes(TargetAttribute(st, attrs[aindex], targetCount, targetIndex),
                          attrs, targetCount, targetIndex, aindex + 1)

\* The loop over the primary indices, lines 263-291.
RECURSIVE MorphTargets(_, _, _, _)
MorphTargets(st, prim, primaryIndices, targetCount) ==
    IF targetCount < 4 /\ primaryIndices[targetCount + 1] # kUnused
    THEN MorphTargets(TargetAttributes(st, prim.targetAttrs, targetCount,
                                       primaryIndices[targetCount + 1], 1),
                      prim, primaryIndices, targetCount + 1)
    ELSE st

\* vbb.attribute(attr, slot, ...) of the dummy pass: no payload, slot kept.
Declare(st, attr) ==
    [st EXCEPT !.events = @ \o <<Attribute(attr, 0, st.slot)>>]

\* Lines 298-316 with one dummy buffer per missing attribute.
DummyPassPerAttribute(st) ==
    LET a == IF ~st.hasUv0
             THEN [Declare(st, "UV0") EXCEPT
                     !.events = @ \o <<Buffer(st.slot, "dummy", kMorphTargetUnused)>>,
                     !.slot = @ + 1]
             ELSE st
        b == IF ~st.hasUv1
             THEN [Declare(a, "UV1") EXCEPT
                     !.events = @ \o <<Buffer(a.slot, "dummy", kMorphTargetUnused)>>,
                     !.slot = @ + 1]
             ELSE a
        c == IF ~st.hasVertexColor
             THEN [Declare(b, "COLOR") EXCEPT
                     !.events = @ \o <<Buffer(b.slot, "dummy", kMorphTargetUnused)>>,
                     !.slot = @ + 1]
             ELSE b
    IN c

\* Lines 298-316: the dummy pass.
DummyPass(st) ==
    LET a == IF ~st.hasUv0 THEN Declare(st, "UV0") ELSE st
        b == IF ~st.hasUv1 THEN Declare(a, "UV1") ELSE a
        c == IF ~st.hasVertexColor THEN Declare(b, "COLOR") ELSE b
        needsDummyData == ~st.hasUv0 \/ ~st.hasUv1 \/ ~st.hasVertexColor
    IN IF needsDummyData
       THEN [c EXCEPT !.events = @ \o <<Buffer(c.slot, "dummy", kMorphTargetUnused)>>,
                      !.slot = @ + 1]
       ELSE c

\* The straight-line run of lines 200-318, as if every write were in range.
Layout(prim, primaryIndices) ==
    LET st0 == [slot |-> 0, events |-> <<>>, hasUv0 |-> FALSE, hasUv1 |-> FALSE,
                hasVertexColor |-> FALSE, hasNormals |-> FALSE]
        st1 == BaseAttributes(st0, prim.attributes, prim.uvmap, 1)
        st2 == FlatNormals(st1, prim)
        st3 == MorphTargets(st2, prim, primaryIndices, 0)
    IN DummyPass(st3)

\* VertexBuffer::Builder::build: more buffers than the maximum is a
\* precondition violation.
BuildPrecondition(bufferCount) == bufferCount <= kMaxBufferCount

\* A write buffers[slot] with slot outside the array.
OutOfRange(e) == e.ev = "buffer" /\ e.slot >= kMaxBufferCount

\* The outcomes of one createVertexBuffer call.  buffers[] has kMaxBufferCount
\* elements and no write is guarded: a write past the end is undefined
\* behaviour, after which the call either dies at that write ("crashed") or
\* runs on to the build call, which then fails its precondition ("fatal").
CreateVertexBuffer(prim, primaryIndices) ==
    LET st == Layout(prim, primaryIndices)
        oob == {i \in 1..Len(st.events) : OutOfRange(st.events[i])}
    IN IF oob = {}
       THEN {[events |-> st.events, bufferCount |-> st.slot,
              done |-> IF BuildPrecondition(st.slot) THEN "built" ELSE "fatal"]}
       ELSE LET first == CHOOSE i \in oob : \A j \in oob : i <= j
            IN {[events |-> SubSeq(st.events, 1, first), bufferCount |-> 0,
                 done |-> "crashed"],
                [events |-> st.events, bufferCount |-> st.slot,
                 done |-> IF BuildPrecondition(st.slot) THEN "built" ELSE "fatal"]}

---------------------------------------------------------------------------
(* The cache: MorphKey, MorphKeyEqualFn, createMorphTableEntry, ~MorphHelper *)

Entities == {"e1", "e2"}

MorphKey(targetEntity, primaryIndices) ==
    [targetEntity |-> targetEntity, primaryIndices |-> primaryIndices]

MorphKeyEqualFn(k1, k2) ==
    k1.targetEntity = k2.targetEntity /\ k1.primaryIndices = k2.primaryIndices

\* mMorphTable.find(key): the keys of the table equal to key (at most one).
Find(table, key) == {k \in DOMAIN table : MorphKeyEqualFn(k, key)}

\* The test of line 97 answered without looking at the table.
MissAlways(table, key) == TRUE

\* iter == mMorphTable.end(), line 97.
Miss(table, key) == Find(table, key) = {}

\* mMorphTable.insert({key, val}): an equal key already there is kept.
Insert(table, key, val) ==
    IF Find(table, key) # {} THEN table ELSE table @@ (key :> val)

\* The element insert(...).first / find(...) points at.
Lookup(table, key) == table[CHOOSE k \in DOMAIN table : MorphKeyEqualFn(k, key)]

\* The loop of lines 125-135 from primitive pi on.  acc.result is the
\* MorphValue so far, acc.logs the createVertexBuffer calls made, acc.ok whether
\* every call returned.  Handles are given out in the order of creation.
RECURSIVE EntryOutcomes(_, _, _, _, _)
EntryOutcomes(prims, primaryIndices, pi, acc, firstHandle) ==
    IF pi > Len(prims) THEN {acc}
    ELSE UNION {
        IF b.done = "built"
        THEN EntryOutcomes(prims, primaryIndices, pi + 1,
                 [result |-> Append(acc.result,
                                [vertices |-> firstHandle + Len(acc.result),
                                 indices  |-> prims[pi].indices,
                                 type     |-> GetPrimitiveType(prims[pi].type)]),
                  logs   |-> Append(acc.logs, b),
                  ok     |-> TRUE],
                 firstHandle)
        ELSE {[acc EXCEPT !.logs = Append(@, b), !.ok = FALSE]}
        : b \in CreateVertexBuffer(prims[pi], primaryIndices) }

\* createMorphTableEntry stopping after the first primitive.
CreateMorphTableEntryFirstOnly(prims, primaryIndices, firstHandle) ==
    EntryOutcomes(SubSeq(prims, 1, Min(1, Len(prims))), primaryIndices, 1,
                  [result |-> <<>>, logs |-> <<>>, ok |-> TRUE], firstHandle)

\* createMorphTableEntry, lines 119-137: every way the call can end.
CreateMorphTableEntry(prims, primaryIndices, firstHandle) ==
    EntryOutcomes(prims, primaryIndices, 1,
                  [result |-> <<>>, logs |-> <<>>, ok |-> TRUE], firstHandle)

\* The destructor destroying only the first primitive of every entry.
DestroyCallsFirstOnly(table, h) ==
    Cardinality({k \in DOMAIN table : Len(table[k]) > 0 /\ table[k][1].vertices = h})

\* ~MorphHelper, lines 46-53: the number of engine->destroy calls handle h gets.
DestroyCalls(table, h) ==
    Cardinality({kp \in UNION {{<<k, pi>> : pi \in 1..Len(table[k])} :
                                  k \in DOMAIN table} :
                    table[kp[1]][kp[2]].vertices = h})

---------------------------------------------------------------------------
(* Assets and inputs *)

UnusedUvMap == [i \in 1..UvMapSize |-> "UNUSED"]

UvMapOf(a, b) ==
    [i \in 1..UvMapSize |-> IF i = 1 THEN a ELSE IF i = 2 THEN b ELSE "UNUSED"]

At(atype, index) == [type |-> atype, index |-> index]

\* The asset of a session: e1 has a lit one-primitive mesh, e2 a mesh of two
\* primitives.
SessionAsset ==
    [e \in Entities |->
        IF e = "e1"
        THEN << [type |-> "cgltf_primitive_type_triangles", material |-> "lit",
                 attributes |-> <<At("position", 0), At("normal", 0),
                                  At("texcoord", 0)>>,
                 targetAttrs |-> <<"position", "normal">>,
                 uvmap |-> UvMapOf("UV0", "UNUSED"), indices |-> 1] >>
        ELSE << [type |-> "cgltf_primitive_type_triangles", material |-> "unlit",
                 attributes |-> <<At("position", 0)>>,
                 targetAttrs |-> <<"position">>,
                 uvmap |-> UnusedUvMap, indices |-> 2],
                [type |-> "cgltf_primitive_type_lines", material |-> "none",
                 attributes |-> <<At("position", 0), At("color", 0),
                                  At("texcoord", 0), At("texcoord", 1)>>,
                 targetAttrs |-> <<"position", "tangent">>,
                 uvmap |-> UvMapOf("UV0", "UV1"), indices |-> 3] >>]

\* Weight arrays of a session: count <= 4; fewer than four positive weights;
\* ties at the threshold; two arrays with the same primary indices; none positive.
SessionWeights ==
    { <<1, 1, 1>>, <<2, 1, 0, 1>>,
      <<0, 2, 0, 1, 1>>, <<1, 1, 1, 1, 2>>, <<2, 1, 1, 1, 1>>,
      <<0, 0, 0, 0, 1>>, <<0, 0, 0, 0, 0>> }

\* Every weight array of more than 4 weights within the bounds.
WeightValues == 0..MaxWeight
AllWeights == UNION {[1..n -> WeightValues] : n \in (kMaxPrimary + 1)..MaxCount}

\* Arrays whose first k weights are the positive ones, k = 0..4.
PrefixWeights ==
    {[i \in 1..(kMaxPrimary + 1) |-> IF i <= k THEN 1 ELSE 0] : k \in 0..kMaxPrimary}

\* The elements of list at the positions in S, in order.
RECURSIVE Pick(_, _, _)
Pick(list, S, i) ==
    IF i > Len(list) THEN <<>>
    ELSE (IF i \in S THEN <<list[i]>> ELSE <<>>) \o Pick(list, S, i + 1)

BaseAttributeList ==
    <<At("position", 0), At("normal", 0), At("tangent", 0), At("color", 0),
      At("texcoord", 0), At("texcoord", 1), At("texcoord", UvMapSize)>>

TargetAttributeLists ==
    { <<"position">>, <<"position", "normal">>,
      <<"position", "normal", "tangent">>, <<"position", "normal", "texcoord">> }

\* The primitives createVertexBuffer is explored on.
Primitives ==
    { [type |-> "cgltf_primitive_type_triangles", material |-> m,
       attributes |-> Pick(BaseAttributeList, S, 1), targetAttrs |-> t,
       uvmap |-> UvMapOf(a, b), indices |-> 1] :
        m \in {"none", "lit", "unlit"},
        S \in SUBSET (1..Len(BaseAttributeList)),
        t \in TargetAttributeLists,
        a \in {"UNUSED", "UV0", "UV1"}, b \in {"UNUSED", "UV0", "UV1"} }

---------------------------------------------------------------------------
(* State machine *)

NoCall ==
    [op |-> "none", entity |-> "e1", weights |-> <<>>, count |-> 0,
     primaryIndices |-> <<kUnused, kUnused, kUnused, kUnused>>, hit |-> FALSE]

\* The state after MorphHelper(asset, inst): empty table, the renderables as
\* the asset loader left them (0 stands for the asset's own VertexBuffer).
InitWith(a) ==
    /\ asset = a
    /\ status = "live"
    /\ mMorphTable = <<>>
    /\ mPartiallySortedWeights = <<>>
    /\ geometry = [e \in Entities |->
                     [pi \in 1..Len(a[e]) |->
                        [vertices |-> 0, indices |-> a[e][pi].indices,
                         type |-> GetPrimitiveType(a[e][pi].type)]]]
    /\ morphWeights = [e \in Entities |-> <<0, 0, 0, 0>>]
    /\ vbuffers = <<>>
    /\ destroyed = <<>>
    /\ builds = <<>>
    /\ call = NoCall
    /\ nCalls = 0
    /\ seen = {}

Init == InitWith(SessionAsset)

\* setGeometryAt for every primitive of the table entry, lines 104-109.
SetGeometry(geo, tableEntry) ==
    [pi \in 1..Len(geo) |->
        IF pi <= Len(tableEntry)
        THEN [vertices |-> tableEntry[pi].vertices,
              indices  |-> tableEntry[pi].indices,
              type     |-> tableEntry[pi].type]
        ELSE geo[pi]]

\* The VertexBuffers of the calls that returned, in order.
Built(logs) == SelectSeq(logs, LAMBDA b : b.done = "built")

\* applyWeights(entity, weights, count) with count = Len(weights).
ApplyWeights(entity, weights) ==
    /\ status = "live"
    /\ nCalls < MaxCalls
    /\ nCalls' = nCalls + 1
    /\ asset' = asset
    /\ IF Len(weights) <= 4
       THEN /\ morphWeights' = [morphWeights EXCEPT
                                  ![entity] = SmallWeights(weights, Len(weights))]
            /\ call' = [NoCall EXCEPT !.op = "apply", !.entity = entity,
                                      !.weights = weights, !.count = Len(weights)]
            /\ builds' = <<>>
            /\ UNCHANGED <<status, mMorphTable, mPartiallySortedWeights, geometry,
                           vbuffers, destroyed, seen>>
       ELSE LET count == Min(Len(weights), kMaxWeights) IN
            \E nth \in NthElement(SubSeq(weights, 1, count), 4) :
              LET sorted == PadSorted(nth)
                  primaryIndices == PrimaryIndices(weights, sorted, count)
                  key == MorphKey(entity, primaryIndices)
                  miss == Miss(mMorphTable, key)
              IN
              \E made \in (IF miss
                           THEN CreateMorphTableEntry(asset[entity], primaryIndices,
                                                      Len(vbuffers) + 1)
                           ELSE {[result |-> <<>>, logs |-> <<>>, ok |-> TRUE]}) :
                LET table == IF miss THEN Insert(mMorphTable, key, made.result)
                             ELSE mMorphTable
                    bound == SetGeometry(geometry[entity], Lookup(table, key))
                IN
                /\ mPartiallySortedWeights' = sorted
                /\ builds' = made.logs
                /\ vbuffers' = vbuffers \o [i \in 1..Len(Built(made.logs)) |->
                                              Built(made.logs)[i].events]
                /\ destroyed' = destroyed \o [i \in 1..Len(Built(made.logs)) |-> 0]
                /\ call' = [op |-> "apply", entity |-> entity, weights |-> weights,
                            count |-> count, primaryIndices |-> primaryIndices,
                            hit |-> ~miss]
                /\ IF made.ok
                   THEN /\ status' = status
                        /\ mMorphTable' = table
                        /\ geometry' = [geometry EXCEPT ![entity] = bound]
                        /\ morphWeights' = [morphWeights EXCEPT ![entity] =
                                              Highest(weights, primaryIndices, sorted)]
                        /\ seen' = IF \E r \in seen : r.entity = entity
                                                      /\ r.weights = weights
                                   THEN seen
                                   ELSE seen \cup {[entity |-> entity,
                                                    weights |-> weights,
                                                    bound |-> bound,
                                                    callNo |-> nCalls + 1]}
                   ELSE /\ status' = "fatal"
                        /\ UNCHANGED <<mMorphTable, geometry, morphWeights, seen>>

\* ~MorphHelper.
Teardown ==
    /\ status = "live"
    /\ status' = "destroyed"
    /\ destroyed' = [h \in 1..Len(destroyed) |->
                       destroyed[h] + DestroyCalls(mMorphTable, h)]
    /\ UNCHANGED <<asset, mMorphTable, mPartiallySortedWeights, geometry,
                   morphWeights, vbuffers, builds, call, nCalls, seen>>

\* A session: calls on the session's entities with the session's weights,
\* then teardown.
Apply == \E entity \in Entities, weights \in SessionWeights : ApplyWeights(entity, weights)

Next == Apply \/ Teardown

Spec == Init /\ [][Next]_vars

\* One call with any weight array of more than 4 weights.
ApplyAny ==
    /\ nCalls = 0
    /\ \E entity \in Entities, weights \in AllWeights : ApplyWeights(entity, weights)

SpecSelect == Init /\ [][ApplyAny]_vars

\* One call on a mesh of one primitive, for every primitive.
InitPrimitive ==
    \E prim \in Primitives :
        InitWith([e \in Entities |-> IF e = "e1" THEN <<prim>> ELSE <<>>])

ApplyPrimitive ==
    /\ nCalls = 0
    /\ \E weights \in PrefixWeights : ApplyWeights("e1", weights)

SpecPrimitive == InitPrimitive /\ [][ApplyPrimitive]_vars

---------------------------------------------------------------------------
(* Properties *)

\* The last step was an applyWeights call / one with count > 4 that returned.
Called == call.op = "apply"
CalledBig == call.op = "apply" /\ Len(call.weights) > 4 /\ status # "fatal"

IndexSet(t) == {t[i] : i \in 1..4} \ {kUnused}

Contiguous(t) == \A i, j \in 1..4 : (i < j /\ t[j] # kUnused) => t[i] # kUnused

Increasing(t) ==
    \A i, j \in 1..4 : (i < j /\ t[j] # kUnused) => (t[i] # kUnused /\ t[i] < t[j])

Positive(weights, count) == {i \in 0..(count - 1) : weights[i + 1] > 0}

\* C1: after an applyWeights call with count > 4, every index in the primary
\* index tuple has a weight greater than or equal to the weight of every index
\* of 0..count-1 that is not in the tuple.
C1_SelectedDominate ==
    CalledBig =>
        \A s \in IndexSet(call.primaryIndices) :
            \A j \in (0..(call.count - 1)) \ IndexSet(call.primaryIndices) :
                call.weights[s + 1] >= call.weights[j + 1]

\* C2 as stated: after the selection of a call with count > 4 the tuple has
\* exactly min(4, count) = 4 non-sentinel entries, contiguous from the front.
C2_ExactlyFour ==
    CalledBig =>
        /\ Cardinality({i \in 1..4 : call.primaryIndices[i] # kUnused})
              = Min(4, call.count)
        /\ Contiguous(call.primaryIndices)

\* C2 amended: after the selection of a call with count > 4 the tuple has
\* exactly min(4, p) non-sentinel entries, p the number of strictly positive
\* weights among weights[0..count-1], and they are contiguous from the front.
C2_PositiveCount ==
    CalledBig =>
        /\ Cardinality({i \in 1..4 : call.primaryIndices[i] # kUnused})
              = Min(4, Cardinality(Positive(call.weights, call.count)))
        /\ Contiguous(call.primaryIndices)

\* A call with count > 4 that left exactly two entries in the tuple.
C2_Witness ==
    /\ CalledBig
    /\ call.primaryIndices[2] # kUnused
    /\ call.primaryIndices[3] = kUnused

\* C3: an applyWeights call with count <= 4, in any state of the cache, adds no
\* cache entry, builds no VertexBuffer, changes no geometry binding, and sets
\* the entity's uniform to the weights followed by zeros.
C3_SmallPath ==
    [][ (nCalls' = nCalls + 1 /\ Len(call'.weights) <= 4) =>
          /\ mMorphTable' = mMorphTable
          /\ vbuffers' = vbuffers
          /\ builds' = <<>>
          /\ geometry' = geometry
          /\ \A i \in 1..4 :
               morphWeights'[call'.entity][i] =
                  IF i <= Len(call'.weights) THEN call'.weights[i] ELSE 0 ]_vars

\* A call with 3 weights made when the cache holds an entry.
C3_Witness ==
    /\ Called
    /\ call.count = 3
    /\ Len(call.weights) = 3
    /\ DOMAIN mMorphTable # {}
    /\ morphWeights[call.entity] = <<1, 1, 1, 0>>

\* C4: a call with count > 4 whose (entity, weights) was passed to an earlier
\* call is a cache hit: it builds no VertexBuffer, leaves the set of cache
\* entries as it is, and binds to every primitive the vertex and index buffers
\* the first call bound.
C4_RepeatIsHit ==
    [][ (nCalls' = nCalls + 1 /\ Len(call'.weights) > 4) =>
          \A r \in seen :
              (r.entity = call'.entity /\ r.weights = call'.weights) =>
                  /\ call'.hit
                  /\ vbuffers' = vbuffers
                  /\ builds' = <<>>
                  /\ DOMAIN mMorphTable' = DOMAIN mMorphTable
                  /\ geometry'[call'.entity] = r.bound ]_vars

\* The last call repeats the weights of a call made at least two calls
\* earlier on the same entity.
C4_Witness ==
    /\ CalledBig
    /\ call.hit
    /\ \E r \in seen : /\ r.entity = call.entity
                       /\ r.weights = call.weights
                       /\ r.callNo + 1 < nCalls

\* C5: no VertexBuffer built by createVertexBuffer is destroyed before
\* teardown, and after teardown each has been destroyed exactly once.
C5_DestroyedOnce ==
    /\ Len(destroyed) = Len(vbuffers)
    /\ status = "live" => \A h \in 1..Len(vbuffers) : destroyed[h] = 0
    /\ status = "destroyed" => \A h \in 1..Len(vbuffers) : destroyed[h] = 1

\* Teardown of a helper whose cache holds at least three VertexBuffers.
C5_Witness == status = "destroyed" /\ Len(vbuffers) >= 3

\* C6: the non-sentinel entries of every primary index tuple are strictly
\* increasing, so for one entity equal index sets give equal keys: the cache
\* never holds two entries of an entity with the same index set, and a call
\* whose index set is that of an entry has that entry's key.
C6_TupleIsSet ==
    /\ CalledBig => Increasing(call.primaryIndices)
    /\ \A k \in DOMAIN mMorphTable : Increasing(k.primaryIndices)
    /\ \A k1, k2 \in DOMAIN mMorphTable :
          (/\ k1.targetEntity = k2.targetEntity
           /\ IndexSet(k1.primaryIndices) = IndexSet(k2.primaryIndices)) => k1 = k2
    /\ CalledBig =>
          \A k \in DOMAIN mMorphTable :
              (/\ k.targetEntity = call.entity
               /\ IndexSet(k.primaryIndices) = IndexSet(call.primaryIndices))
              => k.primaryIndices = call.primaryIndices

\* A call with weights not passed before that hits an entry made for other
\* weights with the same index set, the cache holding several entries.
C6_Witness ==
    /\ CalledBig
    /\ call.hit
    /\ Cardinality(DOMAIN mMorphTable) >= 2
    /\ \E r \in seen : /\ r.entity = call.entity
                       /\ r.weights = call.weights
                       /\ r.callNo = nCalls

\* C7: a cache entry is created only by a count > 4 call whose key is not in
\* the cache, with one record and one createVertexBuffer call per primitive
\* of the entity's mesh; no entry is ever removed, replaced or resized.
C7_EntriesPersist ==
    [][ /\ \A k \in DOMAIN mMorphTable :
              k \in DOMAIN mMorphTable' /\ mMorphTable'[k] = mMorphTable[k]
        /\ \A k \in (DOMAIN mMorphTable') \ (DOMAIN mMorphTable) :
              /\ nCalls' = nCalls + 1
              /\ Len(call'.weights) > 4
              /\ ~call'.hit
              /\ k = MorphKey(call'.entity, call'.primaryIndices)
              /\ Len(mMorphTable'[k]) = Len(asset[k.targetEntity])
              /\ Len(builds') = Len(asset[k.targetEntity])
              /\ Len(vbuffers') = Len(vbuffers) + Len(asset[k.targetEntity])
        /\ (/\ nCalls' = nCalls + 1
            /\ Len(call'.weights) > 4
            /\ MorphKey(call'.entity, call'.primaryIndices) \in DOMAIN mMorphTable)
           => (builds' = <<>> /\ vbuffers' = vbuffers
               /\ DOMAIN mMorphTable' = DOMAIN mMorphTable) ]_vars

\* The cache holds two entries, one of them of the two-primitive mesh, and the
\* last call hit.
C7_Witness ==
    /\ CalledBig
    /\ call.hit
    /\ Cardinality(DOMAIN mMorphTable) >= 2
    /\ \E k \in DOMAIN mMorphTable : Len(mMorphTable[k]) = 2

\* Attribute a was bound from the base attributes: declared on a slot that
\* received a copy of accessor data.
BoundFromBase(events, a) ==
    \E i, j \in 1..Len(events) :
        /\ events[i].ev = "attribute" /\ events[i].attr = a
        /\ events[j].ev = "buffer" /\ events[j].slot = events[i].slot
        /\ events[j].payload = "copy"

MissingAttributes(events) ==
    {a \in {"UV0", "UV1", "COLOR"} : ~BoundFromBase(events, a)}

DummyWrites(events) ==
    {i \in 1..Len(events) : events[i].ev = "buffer" /\ events[i].payload = "dummy"}

\* C8: in every createVertexBuffer call that reaches the build call: if one of
\* UV0, UV1, COLOR was not bound from the base attributes, exactly one dummy
\* buffer is written and every missing attribute is declared on the slot that
\* receives it, and only there; if all three were bound, no dummy buffer is
\* written and every declared slot has its own payload.
C8_SharedDummy ==
    \A n \in 1..Len(builds) :
        LET events == builds[n].events
            missing == MissingAttributes(events)
            dummies == DummyWrites(events)
        IN builds[n].done # "crashed" =>
            IF missing # {}
            THEN /\ Cardinality(dummies) = 1
                 /\ \A a \in missing :
                      /\ \E i \in 1..Len(events) :
                            events[i].ev = "attribute" /\ events[i].attr = a
                      /\ \A i \in 1..Len(events) :
                            (events[i].ev = "attribute" /\ events[i].attr = a) =>
                                \A d \in dummies : events[i].slot = events[d].slot
            ELSE /\ dummies = {}
                 /\ builds[n].bufferCount =
                       Cardinality({i \in 1..Len(events) : events[i].ev = "buffer"})
                 /\ \A i \in 1..Len(events) :
                       events[i].ev = "attribute" =>
                           \E j \in 1..Len(events) :
                               /\ events[j].ev = "buffer"
                               /\ events[j].slot = events[i].slot

\* A VertexBuffer built for a primitive with UV0 but without UV1 and color.
C8_Witness ==
    \E n \in 1..Len(builds) :
        /\ builds[n].done = "built"
        /\ MissingAttributes(builds[n].events) = {"UV1", "COLOR"}

\* C9: createVertexBuffer never writes buffers[slot] with slot >= 16; a
\* primitive that needs more slots ends the call before such a write.
C9_NoOutOfRangeWrite ==
    \A n \in 1..Len(builds) :
        \A i \in 1..Len(builds[n].events) : ~OutOfRange(builds[n].events[i])

\* C10: after a call with count > 4, component i of the entity's uniform is
\* weights[tuple[i]] for a non-sentinel slot i and weights[0] for a sentinel
\* slot, and in every VertexBuffer the call bound, the morph attributes of
\* ordinal i carry the data of target tuple[i].
C10_UniformMatchesOrdinals ==
    (CalledBig /\ nCalls > 0) =>
        /\ \A i \in 1..4 :
              morphWeights[call.entity][i] =
                 IF call.primaryIndices[i] # kUnused
                 THEN call.weights[call.primaryIndices[i] + 1]
                 ELSE call.weights[1]
        /\ \A pi \in 1..Len(geometry[call.entity]) :
              LET h == geometry[call.entity][pi].vertices
                  vb == vbuffers[h]
                  morph == {n \in 1..Len(vb) :
                               /\ vb[n].ev = "attribute"
                               /\ vb[n].attr \in {"MORPH_POSITION", "MORPH_TANGENTS"}}
              IN /\ h \in 1..Len(vbuffers)
                 /\ \A n \in morph :
                      /\ call.primaryIndices[vb[n].ord + 1] # kUnused
                      /\ \E m \in 1..Len(vb) :
                            /\ vb[m].ev = "buffer"
                            /\ vb[m].slot = vb[n].slot
                            /\ vb[m].target = call.primaryIndices[vb[n].ord + 1]
                 /\ \A i \in 1..4 :
                      (/\ call.primaryIndices[i] # kUnused
                       /\ "position" \in {asset[call.entity][pi].targetAttrs[a] :
                               a \in 1..Len(asset[call.entity][pi].targetAttrs)})
                      => \E n \in morph : vb[n].ord = i - 1

\* A cache hit whose tuple has a sentinel slot and whose first entry is not
\* target 0.
C10_Witness ==
    /\ CalledBig
    /\ call.hit
    /\ call.primaryIndices[4] = kUnused
    /\ call.primaryIndices[1] \notin {0, kUnused}

====
